---- MODULE Spec2Model ----
(***************************************************************************)
(* rerman: the remote-locator parser (src/src/git.rs, GitUrl::parse) and   *)
(* the layout code of the Clone, Create and List commands                  *)
(* (src/src/rer.rs, Rer::run and Rer::path_of_repo).                       *)
(* Further specifications: AccessorSpec (the accessors of GitUrl over      *)
(* every value), ScanSpec (the repository scanner) and ListSpec (the List  *)
(* command with its filters).                                              *)
(*                                                                         *)
(* A Rust string is a sequence of one-character strings, so that the       *)
(* parser, the pattern match and the path joins work on characters as the  *)
(* code does.  Option<T> is a sequence of length 0 (None) or 1 (Some).     *)
(***************************************************************************)
EXTENDS Integers, Sequences, FiniteSets

VARIABLES pc, ty, target, hostname, parsed, url, layout, dest, item,
          fs, req, out

vars == <<pc, ty, target, hostname, parsed, url, layout, dest, item,
          fs, req, out>>

----------------------------------------------------------------------------
(* Options and strings                                                     *)

None == <<>>

Some(x) == <<x>>

UnwrapOrDefault(o) == IF o = None THEN <<>> ELSE o[1]

UpperCase == <<"A","B","C","D","E","F","G","H","I","J","K","L","M",
               "N","O","P","Q","R","S","T","U","V","W","X","Y","Z">>

LowerCase == <<"a","b","c","d","e","f","g","h","i","j","k","l","m",
               "n","o","p","q","r","s","t","u","v","w","x","y","z">>

Digits == <<"0","1","2","3","4","5","6","7","8","9">>

Range(f) == {f[i] : i \in DOMAIN f}

IsAlpha(c) == c \in Range(UpperCase) \cup Range(LowerCase)

IsDigit(c) == c \in Range(Digits)

LowerChar(c) ==
  IF c \in Range(UpperCase)
  THEN LowerCase[CHOOSE i \in DOMAIN UpperCase : UpperCase[i] = c]
  ELSE c

ToLowercase(s) == [i \in DOMAIN s |-> LowerChar(s[i])]

DigitValue(c) == (CHOOSE i \in DOMAIN Digits : Digits[i] = c) - 1

Drop(s, n) == SubSeq(s, n + 1, Len(s))

Take(s, n) == SubSeq(s, 1, n)

StartsWith(s, p) == Len(s) >= Len(p) /\ Take(s, Len(p)) = p

EndsWith(s, p) == Len(s) >= Len(p) /\ Drop(s, Len(s) - Len(p)) = p

\* Smallest index >= from whose character is in cs; Len(s) + 1 when none.
FindFrom(s, from, cs) ==
  LET hits == {j \in from..Len(s) : s[j] \in cs}
  IN  IF hits = {} THEN Len(s) + 1
      ELSE CHOOSE j \in hits : \A k \in hits : j <= k

\* Largest index whose character is c; 0 when none.
FindLast(s, c) ==
  LET hits == {j \in 1..Len(s) : s[j] = c}
  IN  IF hits = {} THEN 0
      ELSE CHOOSE j \in hits : \A k \in hits : j >= k

----------------------------------------------------------------------------
(* String constants of the program                                         *)

STR_ssh == <<"s", "s", "h">>

STR_git == <<"g", "i", "t">>

STR_http == <<"h", "t", "t", "p">>

STR_https == <<"h", "t", "t", "p", "s">>

STR_ftp == <<"f", "t", "p">>

STR_ftps == <<"f", "t", "p", "s">>

STR_file == <<"f", "i", "l", "e">>

STR_ws == <<"w", "s">>

STR_wss == <<"w", "s", "s">>

STR_local == <<"l", "o", "c", "a", "l">>

STR_dotgit == <<".", "g", "i", "t">>

----------------------------------------------------------------------------
(* regex_captures!(r#"([^@/]+@)?([^:/]+):([^/]+)?/(.+)"#, url)             *)
(*                                                                         *)
(* The pattern is not anchored: the regex crate searches for the leftmost  *)
(* place where it matches, and at one place prefers a participating        *)
(* optional group to an absent one.  Each character class stops at the     *)
(* character that must follow it, so at a given start there is at most one *)
(* match with the user group and at most one without it.  A group that     *)
(* does not participate is captured as the empty string.                   *)

\* MatchAt with the host class read as [^:/]* : an empty host is accepted.
MatchAt_EmptyHost(s, p, withUser) ==
  LET at == FindFrom(s, p, {"@", "/"})
      userOk == at <= Len(s) /\ s[at] = "@" /\ at > p
      h  == IF withUser THEN at + 1 ELSE p
      c  == FindFrom(s, h, {":", "/"})
      hostOk == c <= Len(s) /\ s[c] = ":"
      sl == FindFrom(s, c + 1, {"/"})
      pathOk == sl < Len(s)
  IN  IF (withUser => userOk) /\ h <= Len(s) /\ hostOk /\ pathOk
      THEN Some([user     |-> IF withUser THEN SubSeq(s, p, at) ELSE <<>>,
                 host     |-> SubSeq(s, h, c - 1),
                 username |-> SubSeq(s, c + 1, sl - 1),
                 path     |-> SubSeq(s, sl + 1, Len(s))])
      ELSE None

\* The match starting at p, with ([^@/]+@) participating or not; None if the
\* pattern does not match there in that way.
MatchAt(s, p, withUser) ==
  LET at == FindFrom(s, p, {"@", "/"})
      userOk == at <= Len(s) /\ s[at] = "@" /\ at > p
      h  == IF withUser THEN at + 1 ELSE p
      c  == FindFrom(s, h, {":", "/"})
      hostOk == c <= Len(s) /\ s[c] = ":" /\ c > h
      sl == FindFrom(s, c + 1, {"/"})
      pathOk == sl < Len(s)
  IN  IF (withUser => userOk) /\ h <= Len(s) /\ hostOk /\ pathOk
      THEN Some([user     |-> IF withUser THEN SubSeq(s, p, at) ELSE <<>>,
                 host     |-> SubSeq(s, h, c - 1),
                 username |-> SubSeq(s, c + 1, sl - 1),
                 path     |-> SubSeq(s, sl + 1, Len(s))])
      ELSE None

RegexCaptures(s) ==
  LET starts == {p \in 1..Len(s) :
                   MatchAt(s, p, TRUE) # None \/ MatchAt(s, p, FALSE) # None}
  IN  IF starts = {} THEN None
      ELSE LET p == CHOOSE q \in starts : \A r \in starts : q <= r
           IN  IF MatchAt(s, p, TRUE) # None
               THEN MatchAt(s, p, TRUE) ELSE MatchAt(s, p, FALSE)

----------------------------------------------------------------------------
(* Url::parse of the url crate, as GitUrl::parse calls it (git.rs:84), on  *)
(* strings of ASCII letters, digits and the characters . : / @ .  The      *)
(* result is the SET of outcomes the crate can give: one outcome, except   *)
(* for an authority with an empty host, where releases of the crate differ *)
(* (an error, or a URL without host) and both are admitted.                *)
(* An outcome is [ok |-> FALSE] or a record of the accessors that          *)
(* GitUrl::parse reads: scheme(), username(), host_str(), port(), path().  *)

UrlErr == [ok |-> FALSE]

UrlOk(scheme, username, host, port, path) ==
  [ok |-> TRUE, scheme |-> scheme, username |-> username, host |-> host,
   port |-> port, path |-> path]

IsSchemeChar(c) == IsAlpha(c) \/ IsDigit(c) \/ c \in {"+", "-", "."}

\* Index of the ':' that ends the scheme; 0 if the string has no scheme.
SchemeEnd(s) ==
  IF s = <<>> \/ ~IsAlpha(s[1]) THEN 0
  ELSE LET stops == {j \in 1..Len(s) : ~IsSchemeChar(s[j])}
       IN  IF stops = {} THEN 0
           ELSE LET j == CHOOSE x \in stops : \A y \in stops : x <= y
                IN  IF s[j] = ":" THEN j ELSE 0

IsSpecialNotFile(scheme) ==
  scheme \in {STR_http, STR_https, STR_ws, STR_wss, STR_ftp}

DefaultPort(scheme) ==
  CASE scheme \in {STR_http, STR_ws}   -> Some(80)
    [] scheme \in {STR_https, STR_wss} -> Some(443)
    [] scheme = STR_ftp                -> Some(21)
    [] OTHER                           -> None

\* The port digits read left to right; 65536 stands for every larger value.
RECURSIVE PortValue(_, _)
PortValue(digits, acc) ==
  IF digits = <<>> \/ acc > 65535 THEN acc
  ELSE PortValue(Tail(digits), acc * 10 + DigitValue(Head(digits)))

\* parse_port on the text after ':' up to the end of the authority:
\* [ok, port].
ParsePort(text, scheme) ==
  IF \E i \in DOMAIN text : ~IsDigit(text[i]) THEN [ok |-> FALSE]
  ELSE LET v == PortValue(text, 0)
       IN  IF v > 65535 THEN [ok |-> FALSE]
           ELSE [ok |-> TRUE,
                 port |-> IF text = <<>> \/ Some(v) = DefaultPort(scheme)
                          THEN None ELSE Some(v)]

\* Percent-encoding of the user-info: of the characters modelled only '@'
\* is encoded.
RECURSIVE EncodeUserinfo(_)
EncodeUserinfo(s) ==
  IF s = <<>> THEN <<>>
  ELSE (IF Head(s) = "@" THEN <<"%", "4", "0">> ELSE <<Head(s)>>)
       \o EncodeUserinfo(Tail(s))

\* The path state: the segments of the text after the leading '/', with
\* "." dropped and ".." removing the segment before it.
RECURSIVE ParsePathSegments(_, _)
ParsePathSegments(input, acc) ==
  LET sl    == FindFrom(input, 1, {"/"})
      seg   == Take(input, sl - 1)
      atEnd == sl > Len(input)
      new   == CASE seg = <<".", ".">> ->
                      LET a == IF acc = <<>> THEN acc ELSE Take(acc, Len(acc) - 1)
                      IN  IF atEnd THEN Append(a, <<>>) ELSE a
                 [] seg = <<".">> -> IF atEnd THEN Append(acc, <<>>) ELSE acc
                 [] OTHER -> Append(acc, seg)
  IN  IF atEnd THEN new ELSE ParsePathSegments(Drop(input, sl), new)

RECURSIVE JoinSegments(_)
JoinSegments(segs) ==
  IF segs = <<>> THEN <<>>
  ELSE <<"/">> \o Head(segs) \o JoinSegments(Tail(segs))

\* The path of a hierarchical URL from the text that follows the authority
\* (empty, or starting with '/').
ParsePath(input, special) ==
  IF input = <<>> THEN (IF special THEN <<"/">> ELSE <<>>)
  ELSE LET segs == ParsePathSegments(IF Head(input) = "/" THEN Tail(input) ELSE input, <<>>)
       IN  IF segs = <<>> THEN <<"/">> ELSE JoinSegments(segs)

\* Host::parse of a special or file host: the forbidden characters among
\* those modelled; the domain is lower-cased.
HostParseOk(h) == \A i \in DOMAIN h : h[i] \notin {"@", ":", "/"}

\* "//" has been read: user-info, host, port, then the path.
AfterDoubleSlash(scheme, input) ==
  LET special  == IsSpecialNotFile(scheme)
      aEnd     == FindFrom(input, 1, {"/"})
      auth     == Take(input, aEnd - 1)
      rest     == Drop(input, aEnd - 1)
      lastAt   == FindLast(auth, "@")
      userinfo == Take(auth, lastAt - (IF lastAt = 0 THEN 0 ELSE 1))
      hostport == Drop(auth, lastAt)
      uColon   == FindFrom(userinfo, 1, {":"})
      username == EncodeUserinfo(Take(userinfo, uColon - 1))
      password == Drop(userinfo, IF uColon > Len(userinfo) THEN Len(userinfo) ELSE uColon)
      hasAuthority == username # <<>> \/ password # <<>>
      hColon   == FindFrom(hostport, 1, {":"})
      hostStr  == Take(hostport, hColon - 1)
      port     == IF hColon > Len(hostport) THEN [ok |-> TRUE, port |-> None]
                  ELSE ParsePort(Drop(hostport, hColon), scheme)
      good(h)  == UrlOk(scheme, username, h, port.port, ParsePath(rest, special))
  IN  CASE hostStr = <<>> /\ special -> {UrlErr}
        [] ~port.ok -> {UrlErr}
        [] hostStr = <<>> /\ hasAuthority -> {UrlErr}
        [] hostStr = <<>> /\ auth = <<>> -> {good(None)}
        [] hostStr = <<>> -> {UrlErr, good(None)}
        [] special -> {good(Some(ToLowercase(hostStr)))}
        [] OTHER -> {good(Some(hostStr))}

IsWindowsDriveLetter(h) ==
  Len(h) = 2 /\ IsAlpha(h[1]) /\ h[2] \in {":", "|"}

\* parse_file: "file:" has been read.
ParseFile(input) ==
  LET filePath(text) == ParsePath(text, TRUE)
      ok(h, path) == UrlOk(STR_file, <<>>, h, None, path)
  IN  IF StartsWith(input, <<"/", "/">>)
      THEN LET after   == Drop(input, 2)
               hEnd    == FindFrom(after, 1, {"/"})
               hostStr == Take(after, hEnd - 1)
               rest    == Drop(after, hEnd - 1)
           IN  CASE IsWindowsDriveLetter(hostStr) -> {ok(None, filePath(after))}
                 [] hostStr = <<>> -> {ok(None, filePath(rest))}
                 [] ~HostParseOk(hostStr) -> {UrlErr}
                 [] OTHER -> {ok(Some(ToLowercase(hostStr)), filePath(rest))}
      ELSE {ok(None, filePath(input))}

UrlParse(s) ==
  LET e      == SchemeEnd(s)
      scheme == ToLowercase(Take(s, e - 1))
      rest   == Drop(s, e)
      slashes == LET non == {j \in 1..Len(rest) : rest[j] # "/"}
                 IN  IF non = {} THEN Len(rest)
                     ELSE (CHOOSE j \in non : \A k \in non : j <= k) - 1
  IN  CASE e = 0 -> {UrlErr}
        [] scheme = STR_file -> ParseFile(rest)
        [] IsSpecialNotFile(scheme) -> AfterDoubleSlash(scheme, Drop(rest, slashes))
        [] StartsWith(rest, <<"/", "/">>) -> AfterDoubleSlash(scheme, Drop(rest, 2))
        [] StartsWith(rest, <<"/">>) ->
             {UrlOk(scheme, <<>>, None, None, ParsePath(rest, FALSE))}
        [] OTHER -> {UrlOk(scheme, <<>>, None, None, rest)}

----------------------------------------------------------------------------
(* GitUrl (git.rs:50-79) and GitUrl::parse (git.rs:82-172)                 *)

Ok(v) == [ok |-> TRUE, val |-> v]

Err(e) == [ok |-> FALSE, err |-> e]

Ssh(user, host, port, username, path) ==
  [variant |-> "Ssh", user |-> user, host |-> host, port |-> port,
   username |-> username, path |-> path]

Git(host, port, username, path) ==
  [variant |-> "Git", host |-> host, port |-> port, username |-> username,
   path |-> path]

Http(https, host, port, path) ==
  [variant |-> "Http", https |-> https, host |-> host, port |-> port,
   path |-> path]

Ftp(ftps, host, port, path) ==
  [variant |-> "Ftp", ftps |-> ftps, host |-> host, port |-> port,
   path |-> path]

File(path) == [variant |-> "File", path |-> path]

\* PathBuf::from(url).to_string_lossy().to_string(): a PathBuf keeps the
\* text it is made from, and the text is valid UTF-8.
PathBufFromToString(s) == s

\* if user.is_empty() { None } else { Some(user.to_string()) }
NonEmpty(s) == IF s = <<>> THEN None ELSE Some(s)

\* url.host_str().ok_or(anyhow!("empty host"))?
RequireHost(u) ==
  IF u.host = None THEN Err("empty host") ELSE Ok(u.host[1])

\* ParseUrlBranch with the secure flag of Http compared with "http".
ParseUrlBranch_SecureIsHttp(u) ==
  LET scheme == ToLowercase(u.scheme)
      host   == RequireHost(u)
  IN  CASE scheme = STR_ssh ->
             IF host.ok
             THEN Ok(Ssh(NonEmpty(u.username), host.val, u.port, None, u.path))
             ELSE host
        [] scheme = STR_git ->
             IF host.ok THEN Ok(Git(host.val, u.port, None, u.path)) ELSE host
        [] scheme \in {STR_http, STR_https} ->
             IF host.ok
             THEN Ok(Http(u.scheme = STR_http, host.val, u.port, u.path))
             ELSE host
        [] scheme \in {STR_ftp, STR_ftps} ->
             IF host.ok
             THEN Ok(Ftp(u.scheme = STR_ftps, host.val, u.port, u.path))
             ELSE host
        [] scheme = STR_file -> Ok(File(u.path))
        [] OTHER -> Err("invalid url schema")

\* The first branch of parse: Url::parse succeeded with u.
ParseUrlBranch(u) ==
  LET scheme == ToLowercase(u.scheme)
      host   == RequireHost(u)
  IN  CASE scheme = STR_ssh ->
             IF host.ok
             THEN Ok(Ssh(NonEmpty(u.username), host.val, u.port, None, u.path))
             ELSE host
        [] scheme = STR_git ->
             IF host.ok THEN Ok(Git(host.val, u.port, None, u.path)) ELSE host
        [] scheme \in {STR_http, STR_https} ->
             IF host.ok
             THEN Ok(Http(u.scheme = STR_https, host.val, u.port, u.path))
             ELSE host
        [] scheme \in {STR_ftp, STR_ftps} ->
             IF host.ok
             THEN Ok(Ftp(u.scheme = STR_ftps, host.val, u.port, u.path))
             ELSE host
        [] scheme = STR_file -> Ok(File(u.path))
        [] OTHER -> Err("invalid url schema")

\* ParseShorthandBranch without the account: the text after ':' is all path.
ParseShorthandBranch_NoAccount(m) ==
  Ok(Ssh(NonEmpty(m.user), m.host, None, None,
         IF m.username = <<>> THEN m.path ELSE m.username \o <<"/">> \o m.path))

\* The second branch: the captures of the shorthand pattern.
ParseShorthandBranch(m) ==
  Ok(Ssh(NonEmpty(m.user), m.host, None, NonEmpty(m.username), m.path))

\* parse, given the outcome u of Url::parse(raw).
GitUrlParseWith(raw, u) ==
  IF u.ok THEN ParseUrlBranch(u)
  ELSE IF RegexCaptures(raw) # None
       THEN ParseShorthandBranch(RegexCaptures(raw)[1])
       ELSE Ok(File(PathBufFromToString(raw)))

\* GitUrlUsername with the login user of an Ssh locator in place of its
\* account.
GitUrlUsername_SshUser(g) ==
  IF g.variant = "Ssh" THEN UnwrapOrDefault(g.user)
  ELSE IF g.variant = "Git" THEN UnwrapOrDefault(g.username) ELSE <<>>

\* GitUrl::username (git.rs:174-182)
GitUrlUsername(g) ==
  IF g.variant \in {"Ssh", "Git"} THEN UnwrapOrDefault(g.username) ELSE <<>>

\* GitUrl::host (git.rs:184-192)
GitUrlHost(g) == IF g.variant = "File" THEN STR_local ELSE g.host

\* GitUrl::path (git.rs:194-202)
GitUrlPath(g) == g.path

----------------------------------------------------------------------------
(* Paths: std::path::PathBuf on Unix, as rer.rs uses it                    *)

IsAbsolute(p) == p # <<>> /\ p[1] = "/"

\* PathBuf::join: an absolute argument replaces the path; otherwise a
\* separator is added unless the path is empty or ends with one.
PathBufJoin(base, p) ==
  IF IsAbsolute(p) THEN p
  ELSE IF base # <<>> /\ base[Len(base)] # "/" THEN base \o <<"/">> \o p
       ELSE base \o p

\* str::strip_prefix('/').unwrap_or(path)
StripPrefixSlash(p) == IF p # <<>> /\ p[1] = "/" THEN Tail(p) ELSE p

\* str::strip_suffix(".git").unwrap_or(path)
StripSuffixGit(p) ==
  IF EndsWith(p, STR_dotgit) THEN Take(p, Len(p) - Len(STR_dotgit)) ELSE p

\* NormalizeClonePath with every leading '/' stripped (trim_start_matches).
RECURSIVE TrimStartSlashes(_)
TrimStartSlashes(p) ==
  IF p # <<>> /\ p[1] = "/" THEN TrimStartSlashes(Tail(p)) ELSE p

NormalizeClonePath_TrimAll(p) == StripSuffixGit(TrimStartSlashes(p))

\* The block of rer.rs:229-234.
NormalizeClonePath(p) == StripSuffixGit(StripPrefixSlash(p))

\* The texts between the separators of p.
RECURSIVE SplitSlash(_)
SplitSlash(p) ==
  LET sl == FindFrom(p, 1, {"/"})
  IN  IF sl > Len(p) THEN <<p>>
      ELSE <<Take(p, sl - 1)>> \o SplitSlash(Drop(p, sl))

\* Path::components: the root directory (written <<"/">>) of an absolute
\* path, then the non-empty segments; "." is kept only as the first
\* component of a relative path.
Components(p) ==
  LET parts == SplitSlash(p)
      keep  == SelectSeq([i \in DOMAIN parts |-> <<i, parts[i]>>],
                 LAMBDA e : e[2] # <<>> /\
                            (e[2] = <<".">> => e[1] = 1 /\ ~IsAbsolute(p)))
      names == [i \in DOMAIN keep |-> keep[i][2]]
  IN  IF IsAbsolute(p) THEN <<(<<"/">>)>> \o names ELSE names

RECURSIVE JoinComponents(_)
JoinComponents(cs) ==
  IF cs = <<>> THEN <<>>
  ELSE IF Len(cs) = 1 THEN Head(cs)
  ELSE Head(cs) \o <<"/">> \o JoinComponents(Tail(cs))

\* Path::strip_prefix(base), then to_string_lossy().to_string(): the
\* components after those of base, or None (the error) when base is no prefix.
StripPrefix(p, base) ==
  LET pc_ == Components(p)
      bc  == Components(base)
  IN  IF Len(bc) <= Len(pc_) /\ Take(pc_, Len(bc)) = bc
      THEN Some(JoinComponents(Drop(pc_, Len(bc))))
      ELSE None

----------------------------------------------------------------------------
(* Rer (rer.rs)                                                            *)

\* Rer::repo_dir (rer.rs:45-92): the configured repository directory.
RepoDir == <<"/", "r">>

\* Rer::path_of_repo (rer.rs:94-106)
PathOfRepo(kind, host, username, path) ==
  PathBufJoin(PathBufJoin(PathBufJoin(PathBufJoin(RepoDir, kind), host),
                          username), path)

\* The destination the Clone command hands to git (rer.rs:225-235).
CloneDest(g) ==
  PathBufJoin(PathBufJoin(PathBufJoin(PathBufJoin(RepoDir, STR_git),
                                      GitUrlHost(g)),
                          GitUrlUsername(g)),
              NormalizeClonePath(GitUrlPath(g)))

\* The directory a path names once it has been created: ".." steps back to
\* the parent (the root directory is its own parent).
RECURSIVE ResolveDir(_, _)
ResolveDir(cs, acc) ==
  IF cs = <<>> THEN acc
  ELSE IF Head(cs) = <<".", ".">>
       THEN ResolveDir(Tail(cs), IF Len(acc) <= 1 THEN acc ELSE Take(acc, Len(acc) - 1))
       ELSE IF Head(cs) = <<".">> THEN ResolveDir(Tail(cs), acc)
       ELSE ResolveDir(Tail(cs), Append(acc, Head(cs)))

\* ListEntry with the host directory stripped of the repository directory
\* instead of the type directory.
ListEntry_HostFromRoot(repo) ==
  LET root  == Components(RepoDir)
      dir   == ResolveDir(Components(repo), <<>>)
      below == Drop(dir, Len(root))
      type_dir_path == PathBufJoin(RepoDir, below[1])
      host_dir_path == PathBufJoin(type_dir_path, below[2])
      repo_dir      == IF Len(below) = 2 THEN host_dir_path
                       ELSE PathBufJoin(host_dir_path, JoinComponents(Drop(below, 2)))
  IN  IF IsAbsolute(repo) /\ Len(dir) >= Len(root) + 2 /\ Take(dir, Len(root)) = root
      THEN Some([path     |-> StripPrefix(repo_dir, host_dir_path)[1],
                 ty       |-> StripPrefix(type_dir_path, RepoDir)[1],
                 hostname |-> StripPrefix(host_dir_path, RepoDir)[1]])
      ELSE None

\* The List command (rer.rs:401-443) over a repository directory holding
\* one repository, the directory repo: the entry it lists, or None when
\* the repository is not two levels or more below the repository directory.
ListEntry(repo) ==
  LET root  == Components(RepoDir)
      dir   == ResolveDir(Components(repo), <<>>)
      below == Drop(dir, Len(root))
      type_dir_path == PathBufJoin(RepoDir, below[1])
      host_dir_path == PathBufJoin(type_dir_path, below[2])
      repo_dir      == IF Len(below) = 2 THEN host_dir_path
                       ELSE PathBufJoin(host_dir_path, JoinComponents(Drop(below, 2)))
  IN  IF IsAbsolute(repo) /\ Len(dir) >= Len(root) + 2 /\ Take(dir, Len(root)) = root
      THEN Some([path     |-> StripPrefix(repo_dir, host_dir_path)[1],
                 ty       |-> StripPrefix(type_dir_path, RepoDir)[1],
                 hostname |-> StripPrefix(host_dir_path, type_dir_path)[1]])
      ELSE None

----------------------------------------------------------------------------
(* Inputs                                                                  *)

\* Length of the longest command-line text drawn from FreeAlphabet.
MaxFree == 4

FreeAlphabet == {"a", ":", "/", "@"}

FreeStrings == UNION {[1..n -> FreeAlphabet] : n \in 0..MaxFree}

Leads == {<<>>, STR_ssh, STR_git, STR_http, STR_https,
          <<"H", "T", "T", "P", "S">>, STR_ftp, STR_ftps, STR_file,
          <<"s", "v", "n">>}

Seps == {<<>>, <<":">>, <<":", "/", "/">>}

Users == {<<>>, <<"g", "i", "t", "@">>, <<"u", "s", "e", "r", "@">>}

Hosts == {<<>>, <<"h", "o", "s", "t">>,
          <<"g", "i", "t", "h", "u", "b", ".", "c", "o", "m">>}

Ports == {<<>>, <<":">>, <<":", "2", "2", "2", "2">>, <<":", "4", "4", "3">>}

Paths == {<<>>, <<"/">>, <<"/", "a", "/", "b">>,
          <<"/", "f", "o", "o", "/", "b", "a", "r", ".", "g", "i", "t">>,
          <<"f", "o", "o", "/", "b", "a", "r", ".", "g", "i", "t">>,
          <<"/", "/", "x">>,
          <<"/", "l", "o", "c", "a", "l", "/", "d", "i", "s", "k", "/", "p", "a", "t", "h">>,
          <<"/", "b", "a", "r", ".", "g", "i", "t", ".", "g", "i", "t">>}

Locator(lead, sep, user, host, port, path) ==
  lead \o sep \o user \o host \o port \o path

BuiltStrings ==
  {Locator(l, s, u, h, p, t) :
     l \in Leads, s \in Seps, u \in Users, h \in Hosts, p \in Ports, t \in Paths}

\* A host whose last label is a number is an IPv4 address, which the url
\* crate rewrites; such hosts are outside the fragment of Url::parse
\* modelled above.
NumericHost(raw) ==
  \E u \in UrlParse(raw) :
    /\ u.ok /\ u.host # None /\ IsSpecialNotFile(u.scheme)
    /\ LET h == u.host[1]
           d == FindLast(h, ".")
       IN  d < Len(h) /\ \A i \in (d + 1)..Len(h) : IsDigit(h[i])

\* The target arguments of the Clone command.
Targets == {raw \in FreeStrings \cup BuiltStrings : ~NumericHost(raw)}

\* The type arguments: "git", and one that is not supported.
Types == {STR_git, <<"h", "g">>}

\* The hostname and target arguments of the Create command.
CreateHostnames == {<<"h", "o", "s", "t">>, <<"g", "i", "t", "h", "u", "b", ".", "c", "o", "m">>}

CreateTargets == {<<"p", "r", "o", "j">>, <<"a", "/", "b">>, <<"/", "a", "b", "s">>, <<>>,
                  <<".", ".", "/", "x">>}

----------------------------------------------------------------------------
(* The commands                                                            *)

Init ==
  /\ pc = "start"
  /\ ty = <<>>
  /\ target = <<>>
  /\ hostname = <<>>
  /\ parsed = None
  /\ url = None
  /\ layout = None
  /\ dest = None
  /\ item = None
  /\ fs = <<>>
  /\ req = <<>>
  /\ out = <<>>

\* A type other than "git": todo!() panics (rer.rs:239-241, 391-393).
Unsupported(t) ==
  /\ pc = "start"
  /\ t # STR_git
  /\ pc' = "panicked"
  /\ ty' = t
  /\ UNCHANGED <<target, hostname, parsed, url, layout, dest, item, fs, req, out>>

\* Commands::Clone (rer.rs:218-244): parse the target, compose the
\* destination, run git clone.
Clone(raw, u) ==
  /\ pc = "start"
  /\ ty' = STR_git
  /\ target' = raw
  /\ parsed' = Some(u)
  /\ LET r == GitUrlParseWith(raw, u)
     IN  /\ url' = Some(r)
         /\ IF r.ok
            THEN /\ layout' = Some([kind    |-> STR_git,
                                    host    |-> GitUrlHost(r.val),
                                    account |-> GitUrlUsername(r.val),
                                    path    |-> NormalizeClonePath(GitUrlPath(r.val))])
                 /\ dest' = Some(CloneDest(r.val))
                 /\ pc' = "cloned"
            ELSE /\ pc' = "failed"
                 /\ UNCHANGED <<layout, dest>>
  /\ UNCHANGED <<hostname, item, fs, req, out>>

\* Commands::Create (rer.rs:377-394)
Create(h, t) ==
  /\ pc = "start"
  /\ ty' = STR_git
  /\ hostname' = h
  /\ target' = t
  /\ layout' = Some([kind |-> STR_git, host |-> h, account |-> <<>>, path |-> t])
  /\ dest' = Some(PathOfRepo(STR_git, h, <<>>, t))
  /\ pc' = "created"
  /\ UNCHANGED <<parsed, url, item, fs, req, out>>

\* Commands::List (rer.rs:395-450), run once git has made the repository at
\* the destination.
List ==
  /\ pc \in {"cloned", "created"}
  /\ item' = ListEntry(dest[1])
  /\ pc' = "listed"
  /\ UNCHANGED <<ty, target, hostname, parsed, url, layout, dest, fs, req, out>>

Next ==
  \/ \E t \in Types : Unsupported(t)
  \/ \E raw \in Targets : \E u \in UrlParse(raw) : Clone(raw, u)
  \/ \E h \in CreateHostnames, t \in CreateTargets : Create(h, t)
  \/ List

Spec == Init /\ [][Next]_vars

----------------------------------------------------------------------------
(* Texts of the examples, and the forms of input the claims speak of       *)

TXT_host == <<"h", "o", "s", "t">>

TXT_github == <<"g", "i", "t", "h", "u", "b", ".", "c", "o", "m">>

TXT_user == <<"u", "s", "e", "r">>

TXT_foo == <<"f", "o", "o">>

TXT_bar == <<"b", "a", "r">>

TXT_bar_git == TXT_bar \o STR_dotgit

TXT_slash == <<"/">>

TXT_css == <<":", "/", "/">>

\* "git@github.com:foo/bar.git"
EX_shorthand ==
  STR_git \o <<"@">> \o TXT_github \o <<":">> \o TXT_foo \o TXT_slash \o TXT_bar_git

\* "ssh://user@host:2222/a/b"
EX_ssh ==
  STR_ssh \o TXT_css \o TXT_user \o <<"@">> \o TXT_host
    \o <<":", "2", "2", "2", "2">> \o <<"/", "a", "/", "b">>

\* "https://github.com/foo/bar.git"
EX_https ==
  STR_https \o TXT_css \o TXT_github \o TXT_slash \o TXT_foo \o TXT_slash \o TXT_bar_git

\* "/local/disk/path"
EX_local == <<"/", "l", "o", "c", "a", "l", "/", "d", "i", "s", "k", "/", "p", "a", "t", "h">>

\* The Clone command has parsed its target (with or without success).
Parsed == pc \in {"cloned", "failed"} \/ (pc = "listed" /\ url # None)

Result == url[1]

\* The target starts with scheme: for a scheme name (a letter, then letters,
\* digits, '+', '-', '.'); the index of that ':'.
SchemeColon(raw) ==
  IF \E e \in 2..Len(raw) :
       /\ raw[e] = ":" /\ IsAlpha(raw[1])
       /\ \A i \in 1..(e - 1) : IsSchemeChar(raw[i])
  THEN FindFrom(raw, 1, {":"}) ELSE 0

\* The target has the form scheme://...
SchemeQualified(raw) ==
  SchemeColon(raw) > 0 /\ StartsWith(Drop(raw, SchemeColon(raw)), <<"/", "/">>)

SchemeOf(raw) == ToLowercase(Take(raw, SchemeColon(raw) - 1))

HostSchemes == {STR_ssh, STR_git, STR_http, STR_https, STR_ftp, STR_ftps}

\* The whole target has the shorthand form [user@]host:[account]/path: a
\* non-empty text free of '/' and ':', then ':', then a '/' that is not
\* the last character.
IsShorthand(raw) ==
  LET c == FindFrom(raw, 1, {":", "/"})
  IN  /\ 1 < c /\ c <= Len(raw) /\ raw[c] = ":"
      /\ FindFrom(raw, c + 1, {"/"}) < Len(raw)

\* The shorthand has a user@ prefix; the text before its '@'.
HasUserPrefix(raw) ==
  LET a == FindFrom(raw, 1, {"@", ":", "/"})
  IN  IsShorthand(raw) /\ raw[a] = "@" /\ a > 1 /\ raw[a + 1] \notin {":", "/"}

UserPrefix(raw) == Take(raw, FindFrom(raw, 1, {"@"}) - 1)

----------------------------------------------------------------------------
(* Claims                                                                  *)

\* C1: parse("git@github.com:foo/bar.git") is Ssh{user "git", host
\* "github.com", no port, no account, path "foo/bar.git"}, and for every
\* shorthand input with a user@ prefix the user field is the text before
\* the '@', without the '@'.
C1_ShorthandUser ==
  Parsed =>
    /\ target = EX_shorthand =>
         Result = Ok(Ssh(Some(STR_git), TXT_github, None, None,
                         TXT_foo \o TXT_slash \o TXT_bar_git))
    /\ (SchemeColon(target) = 0 /\ HasUserPrefix(target)) =>
         /\ Result.ok /\ Result.val.variant = "Ssh"
         /\ Result.val.user = Some(UserPrefix(target))

\* The variant parse is to give for a scheme.
VariantOf(scheme) ==
  CASE scheme = STR_ssh -> "Ssh"
    [] scheme = STR_git -> "Git"
    [] scheme \in {STR_http, STR_https} -> "Http"
    [] scheme \in {STR_ftp, STR_ftps} -> "Ftp"
    [] scheme = STR_file -> "File"

\* C2: when the target parses as a URL with a non-empty host, parse
\* dispatches on the lower-cased scheme: ssh gives Ssh with the user-info
\* as user (absent when there is none) and no account, git gives Git,
\* http/https give Http with secure exactly for https, ftp/ftps give Ftp
\* with secure exactly for ftps, file gives File; host, port and path are
\* those of the URL.  The two examples of the specification, and every
\* plain locator scheme://[user@]host[:2222]/path, give the fields written
\* in the text.
C2_SchemeDispatch ==
  Parsed =>
    /\ (parsed[1].ok /\ parsed[1].host # None
          /\ parsed[1].scheme \in HostSchemes \cup {STR_file}) =>
         LET u == parsed[1]
             g == Result.val
         IN  /\ Result.ok
             /\ g.variant = VariantOf(u.scheme)
             /\ g.path = u.path
             /\ g.variant # "File" => g.host = u.host[1] /\ g.port = u.port
             /\ g.variant = "Ssh" =>
                  /\ g.user = (IF u.username = <<>> THEN None ELSE Some(u.username))
                  /\ g.username = None
             /\ g.variant = "Git" => g.username = None
             /\ g.variant = "Http" => g.https = (u.scheme = STR_https)
             /\ g.variant = "Ftp" => g.ftps = (u.scheme = STR_ftps)
    /\ target = EX_ssh =>
         Result = Ok(Ssh(Some(TXT_user), TXT_host, Some(2222), None,
                         <<"/", "a", "/", "b">>))
    /\ target = EX_https =>
         Result = Ok(Http(TRUE, TXT_github, None,
                          TXT_slash \o TXT_foo \o TXT_slash \o TXT_bar_git))
    /\ \A scheme \in HostSchemes, user \in {<<>>, TXT_user}, host \in {TXT_host, TXT_github},
          port \in {<<>>, <<":", "2", "2", "2", "2">>},
          path \in {<<"/", "a", "/", "b">>, TXT_slash \o TXT_bar_git} :
         target = scheme \o TXT_css \o (IF user = <<>> THEN <<>> ELSE user \o <<"@">>)
                    \o host \o port \o path
         => /\ Result.ok
            /\ Result.val.variant = VariantOf(scheme)
            /\ Result.val.host = host
            /\ Result.val.port = (IF port = <<>> THEN None ELSE Some(2222))
            /\ Result.val.path = path
            /\ Result.val.variant = "Ssh" =>
                 Result.val.user = (IF user = <<>> THEN None ELSE Some(user))

\* C2 witness: the https example has been parsed into a secure Http locator.
C2_Witness ==
  /\ pc = "cloned" /\ target = EX_https
  /\ Result.ok /\ Result.val.variant = "Http" /\ Result.val.https

\* C3: parse fails only for a target of the form scheme://... (with an
\* unsupported scheme or an empty host); a target that is not
\* scheme-qualified always gives an Ssh or a File locator.  Stated for the
\* targets the claim names in particular: a shorthand host:[account]/path
\* that is not scheme-qualified, and whose host is not the name of a
\* supported scheme, gives an Ssh locator, never an error.
C3_ShorthandNeverFails ==
  (/\ Parsed /\ IsShorthand(target) /\ ~SchemeQualified(target)
   /\ ToLowercase(Take(target, FindFrom(target, 1, {":"}) - 1))
        \notin HostSchemes \cup {STR_file, STR_ws, STR_wss})
  => Result.ok /\ Result.val.variant = "Ssh"

\* The text after scheme:// starts the path at once: the host part is empty.
EmptyHostPart(raw) ==
  /\ SchemeQualified(raw)
  /\ LET rest == Drop(raw, SchemeColon(raw) + 2)
     IN  rest = <<>> \/ Head(rest) = "/"

\* C4: a target whose scheme is ssh, git, http, https, ftp or ftps and
\* whose host part is empty makes parse fail with the empty-host error; no
\* locator is returned for it.
C4_EmptyHostFails ==
  (Parsed /\ EmptyHostPart(target) /\ SchemeOf(target) \in HostSchemes) =>
    Result = Err("empty host")

\* C5: a target that is not scheme-qualified and is not, as a whole, of the
\* shorthand form gives File with the whole target as its path.
C5_LocalPathVerbatim ==
  (Parsed /\ SchemeColon(target) = 0 /\ ~IsShorthand(target)) =>
    Result = Ok(File(target))

\* C6: every locator parse returns that is not File has a non-empty host.
C6_NonFileHostNonEmpty ==
  (Parsed /\ Result.ok /\ Result.val.variant # "File") =>
    Result.val.host # <<>>

\* C6 witness: an Ssh locator made by the shorthand step.
C6_Witness ==
  /\ pc = "cloned" /\ ~parsed[1].ok
  /\ Result.val.variant = "Ssh" /\ Result.val.host = TXT_host

\* The path with one leading '/' and then one trailing ".git" left out,
\* counted in characters.
OneSlashOneSuffixStripped(p) ==
  LET a == IF Len(p) >= 1 /\ p[1] = "/" THEN 1 ELSE 0
      z == IF Len(p) - a >= 4 /\ SubSeq(p, Len(p) - 3, Len(p)) = STR_dotgit
           THEN 4 ELSE 0
  IN  SubSeq(p, a + 1, Len(p) - z)

\* C7: the path the Clone command puts under the layout is the locator's
\* path without one leading '/' (if it starts with one) and without one
\* trailing ".git" (if it ends with one), and is otherwise unchanged: a
\* second '/' or a second ".git" stays.
C7_NormalizeStripsOnce ==
  pc = "cloned" =>
    layout[1].path = OneSlashOneSuffixStripped(GitUrlPath(Result.val))

\* C7 witness: a path with a second ".git" has lost its '/' and one ".git".
C7_Witness ==
  /\ pc = "cloned"
  /\ Result.val.path = TXT_slash \o TXT_bar_git \o STR_dotgit
  /\ layout[1].path = TXT_bar_git

\* C8 as the specification states it: the normalized path of the locator
\* parsed from "git@github.com:foo/bar.git" is "foo/bar".
C8_Original ==
  (pc = "cloned" /\ target = EX_shorthand) =>
    layout[1].path = TXT_foo \o TXT_slash \o TXT_bar

\* C8 amended: the normalized path of the locator parsed from
\* "git@github.com:foo/bar.git" is "bar"; "foo" is the locator's account,
\* and the destination is <repo_dir>/git/github.com/foo/bar.
C8_NormalizedShorthand ==
  (pc = "cloned" /\ target = EX_shorthand) =>
    /\ layout[1].path = TXT_bar
    /\ layout[1].account = TXT_foo
    /\ dest[1] = RepoDir \o TXT_slash \o STR_git \o TXT_slash \o TXT_github
                   \o TXT_slash \o TXT_foo \o TXT_slash \o TXT_bar

\* C8 witness: the shorthand example has been cloned.
C8_Witness ==
  /\ pc = "cloned" /\ target = EX_shorthand
  /\ Result.val.path = TXT_bar_git /\ layout[1].path = TXT_bar

\* root/kind/host/account/path as a text, the account left out when empty.
Slashed(root, l) ==
  root \o TXT_slash \o l.kind \o TXT_slash \o l.host \o TXT_slash
    \o (IF l.account = <<>> THEN <<>> ELSE l.account \o TXT_slash) \o l.path

\* C9: the composed destination is root/kind/host/account/path, and
\* root/kind/host/path when the account is empty, for every kind, host,
\* account and path the Clone and Create commands compose.
C9_ComposeJoins ==
  pc \in {"cloned", "created"} => dest[1] = Slashed(RepoDir, layout[1])

\* A single directory name.
IsName(seg) ==
  /\ seg # <<>> /\ seg \notin {<<".">>, <<".", ".">>}
  /\ \A i \in DOMAIN seg : seg[i] # "/"

\* Names separated by single '/'.
IsRelativeNames(p) ==
  LET parts == SplitSlash(p)
  IN  p # <<>> /\ \A i \in DOMAIN parts : IsName(parts[i])

\* A valid layout tuple: kind and host are names, the account is empty or
\* a name, the path is a relative path of names.
ValidTuple(l) ==
  /\ IsName(l.kind) /\ IsName(l.host)
  /\ l.account = <<>> \/ IsName(l.account)
  /\ IsRelativeNames(l.path)

\* C10 as the specification states it: decomposing the composed path gives
\* (kind, host, path) when the account is empty and the 4-tuple
\* (kind, host, account, path) when it is not.
C10_Original ==
  (pc = "listed" /\ ValidTuple(layout[1])) =>
    /\ item # None
    /\ <<item[1].ty, item[1].hostname, item[1].path>> =
         (IF layout[1].account = <<>>
          THEN <<layout[1].kind, layout[1].host, layout[1].path>>
          ELSE <<layout[1].kind, layout[1].host, layout[1].account, layout[1].path>>)

\* C10 amended: for a valid tuple, decomposing the composed path gives
\* (kind, host, path) when the account is empty, and (kind, host,
\* account/path) when it is not: the account comes back as the first
\* segment of the path, not as a field of its own.
C10_RoundTrip ==
  (pc = "listed" /\ ValidTuple(layout[1])) =>
    /\ item # None
    /\ item[1].ty = layout[1].kind
    /\ item[1].hostname = layout[1].host
    /\ item[1].path = (IF layout[1].account = <<>> THEN layout[1].path
                       ELSE layout[1].account \o TXT_slash \o layout[1].path)

\* C10 witness: a repository cloned with an account has been listed.
C10_Witness ==
  /\ pc = "listed" /\ ValidTuple(layout[1])
  /\ layout[1].account = TXT_foo
  /\ item[1].path = TXT_foo \o TXT_slash \o TXT_bar

----------------------------------------------------------------------------
(* The accessors of GitUrl, applied to every value of the type             *)

\* Option<String> values of a field.
OptTexts == {None, Some(<<>>), Some(TXT_foo), Some(STR_git)}

\* Values of the enum GitUrl (git.rs:50-79), all five variants.
GitUrlValues ==
  LET hosts == {TXT_host, STR_local}
      ports == {None, Some(22)}
      paths == {<<>>, <<"/", "a", "/", "b">>, TXT_foo \o TXT_slash \o TXT_bar_git}
  IN  {Ssh(u, h, p, a, t) : u \in OptTexts, h \in hosts, p \in ports,
                            a \in OptTexts, t \in paths}
      \cup {Git(h, p, a, t) : h \in hosts, p \in ports, a \in OptTexts, t \in paths}
      \cup {Http(b, h, p, t) : b \in BOOLEAN, h \in hosts, p \in ports, t \in paths}
      \cup {Ftp(b, h, p, t) : b \in BOOLEAN, h \in hosts, p \in ports, t \in paths}
      \cup {File(t) : t \in paths}

AccessInit ==
  /\ pc = "value"
  /\ req \in GitUrlValues
  /\ out = <<>>
  /\ ty = <<>> /\ target = <<>> /\ hostname = <<>>
  /\ parsed = None /\ url = None /\ layout = None /\ dest = None /\ item = None
  /\ fs = <<>>

\* The three accessors (git.rs:174-202) applied to the value.
Access ==
  /\ pc = "value"
  /\ out' = [username |-> GitUrlUsername(req),
              host     |-> GitUrlHost(req),
              path     |-> GitUrlPath(req)]
  /\ pc' = "accessed"
  /\ UNCHANGED <<ty, target, hostname, parsed, url, layout, dest, item, fs, req>>

AccessorSpec == AccessInit /\ [][Access]_vars

\* C15: the accessors give a result for every value of all five variants:
\* host() is the stored host for Ssh, Git, Http and Ftp and "local" for
\* File; username() is the stored account when the variant has one (Ssh,
\* Git) and it is present, and the empty string otherwise, always so for
\* Http, Ftp and File; path() is the stored path.
C15_AccessorsTotal ==
  pc = "accessed" =>
    /\ req.variant \in {"Ssh", "Git", "Http", "Ftp"} => out.host = req.host
    /\ req.variant = "File" => out.host = STR_local
    /\ (req.variant \in {"Ssh", "Git"} /\ req.username # None) =>
         out.username = req.username[1]
    /\ (req.variant \in {"Ssh", "Git"} /\ req.username = None) =>
         out.username = <<>>
    /\ req.variant \in {"Http", "Ftp", "File"} => out.username = <<>>
    /\ out.path = req.path

\* C15 witness: the accessors applied to a File value (host "local", no
\* account).
C15_Witness ==
  /\ pc = "accessed" /\ req.variant = "File"
  /\ out.host = STR_local /\ out.username = <<>> /\ out.path = req.path

----------------------------------------------------------------------------
(* The shorthand form once more, and the destinations under the root       *)

\* The host token of a shorthand: the text before its ':', after the user@
\* prefix when there is one.
HostToken(raw) ==
  LET c == FindFrom(raw, 1, {":", "/"})
  IN  IF HasUserPrefix(raw)
      THEN SubSeq(raw, FindFrom(raw, 1, {"@"}) + 1, c - 1)
      ELSE Take(raw, c - 1)

\* The text of a shorthand between its ':' and the first '/' after it.
AccountText(raw) ==
  LET c == FindFrom(raw, 1, {":", "/"})
  IN  SubSeq(raw, c + 1, FindFrom(raw, c + 1, {"/"}) - 1)

\* C16: every target of the shorthand form [user@]host:[account]/path that
\* is not scheme-qualified, with or without the user@ prefix (as
\* "github.com:foo/bar.git"), gives an Ssh locator with no port, the host
\* token as host, no user when there is no user@ prefix, and an account
\* exactly when the text between ':' and the first '/' is not empty.
\* (Stated for host tokens that are not the name of a supported scheme.)
C16_ShorthandFields ==
  (/\ Parsed /\ IsShorthand(target) /\ ~SchemeQualified(target)
   /\ ToLowercase(HostToken(target))
        \notin HostSchemes \cup {STR_file, STR_ws, STR_wss})
  => /\ Result.ok
     /\ Result.val.variant = "Ssh"
     /\ Result.val.port = None
     /\ Result.val.host = HostToken(target)
     /\ ~HasUserPrefix(target) => Result.val.user = None
     /\ (Result.val.username # None) <=> (AccountText(target) # <<>>)

\* The directory p names lies below the directory base names, and is not
\* that directory itself.
StrictlyBelow(p, base) ==
  LET d == ResolveDir(Components(p), <<>>)
      b == ResolveDir(Components(base), <<>>)
  IN  Len(d) > Len(b) /\ Take(d, Len(b)) = b

\* C17: for every target parse accepts, the destination of the Clone
\* command is a directory strictly below <repo_dir>/git, whatever the
\* path, host or account are (a path that still starts with '/' after one
\* '/' is stripped, a segment ".."); and the destination of the Create
\* command is strictly below <repo_dir>/<type>/<hostname>.
C17_DestinationBelowRoot ==
  /\ pc = "cloned" => StrictlyBelow(dest[1], PathBufJoin(RepoDir, STR_git))
  /\ pc = "created" =>
       StrictlyBelow(dest[1], PathBufJoin(PathBufJoin(RepoDir, ty), hostname))

----------------------------------------------------------------------------
(* The repository scanner: filter_git_paths_recursively                    *)
(*                                                                         *)
(* rer.rs imports it from crate::git and calls it at line 425; its body is *)
(* not part of the sources at hand, and is modelled from section 4.3 of    *)
(* the specification.                                                      *)
(*                                                                         *)
(* A filesystem is a graph of directories: fs.kind[d] tells whether the    *)
(* directory d is a repository root ("repo": it directly contains the      *)
(* marker .git), cannot be read ("unreadable"), or is a readable directory *)
(* without the marker ("plain"); fs.entries[d] maps the names of its       *)
(* entries (other than the marker) to a file or to a directory.  A         *)
(* symbolic link to a directory is an entry like any other directory, so   *)
(* the graph may hold cycles.                                              *)

NoEntry == [kind |-> "none"]

FileEntry == [kind |-> "file"]

DirEntry(d) == [kind |-> "dir", node |-> d]

\* The outcomes of a scan: the entries, an I/O error with the path of the
\* directory that could not be read, or a recursion that never returns.
ScanOk(entries) == [kind |-> "ok", entries |-> entries]

ScanErr(path) == [kind |-> "err", path |-> path]

ScanDiverges == [kind |-> "diverges"]

\* ScanDir: the scan of the directory d, reached as path.  inside holds the
\* directories the recursion is in the middle of: entering one of them
\* again starts the same recursion once more, and so on without end (the
\* scan itself keeps no such set).  order is the order in which a directory
\* read returns the names.
\* ScanEntries: the loop over the entries of d, names still to come, acc
\* the entries yielded so far.
RECURSIVE ScanDir(_, _, _, _, _)
RECURSIVE ScanEntries(_, _, _, _, _, _, _)

\* ScanDir that yields a repository root and goes on into it.
ScanDir_NoPrune(f, order, d, path, inside) ==
  IF d \in inside THEN ScanDiverges
  ELSE IF f.kind[d] = "unreadable" THEN ScanErr(path)
  ELSE LET r == ScanEntries(f, order, d, path, inside \cup {d}, order, <<>>)
       IN  IF f.kind[d] = "repo" /\ r.kind = "ok"
           THEN ScanOk(<<path>> \o r.entries)
           ELSE r

ScanDir(f, order, d, path, inside) ==
  IF d \in inside THEN ScanDiverges
  ELSE IF f.kind[d] = "repo" THEN ScanOk(<<path>>)
  ELSE IF f.kind[d] = "unreadable" THEN ScanErr(path)
  ELSE ScanEntries(f, order, d, path, inside \cup {d}, order, <<>>)

\* ScanEntries that skips a subtree that cannot be read and keeps what the
\* other subtrees yield.
ScanEntries_KeepPartial(f, order, d, path, inside, names, acc) ==
  IF names = <<>> THEN ScanOk(acc)
  ELSE LET name == Head(names)
           e    == IF name \in DOMAIN f.entries[d] THEN f.entries[d][name] ELSE NoEntry
       IN  IF e.kind # "dir"
           THEN ScanEntries(f, order, d, path, inside, Tail(names), acc)
           ELSE LET r == ScanDir(f, order, e.node, PathBufJoin(path, name), inside)
                IN  IF r.kind = "diverges" THEN r
                    ELSE ScanEntries(f, order, d, path, inside, Tail(names),
                                     IF r.kind = "ok" THEN acc \o r.entries ELSE acc)

ScanEntries(f, order, d, path, inside, names, acc) ==
  IF names = <<>> THEN ScanOk(acc)
  ELSE LET name == Head(names)
           e    == IF name \in DOMAIN f.entries[d] THEN f.entries[d][name] ELSE NoEntry
       IN  IF e.kind # "dir"
           THEN ScanEntries(f, order, d, path, inside, Tail(names), acc)
           ELSE LET r == ScanDir(f, order, e.node, PathBufJoin(path, name), inside)
                IN  IF r.kind = "ok"
                    THEN ScanEntries(f, order, d, path, inside, Tail(names),
                                     acc \o r.entries)
                    ELSE r

\* filter_git_paths_recursively(path), path naming the entry e: a path
\* that is no directory cannot be read.
FilterGitPathsRecursively(f, order, e, path) ==
  IF e.kind = "dir" THEN ScanDir(f, order, e.node, path, {}) ELSE ScanErr(path)

\* The directories of the filesystems scanned; 1 is the start directory.
ScanDirs == {1, 2, 3}

NameA == <<"a">>

NameB == <<"b">>

DirKinds == {"plain", "repo", "unreadable"}

ScanEntryKinds == {NoEntry, FileEntry} \cup {DirEntry(d) : d \in ScanDirs}

\* The filesystems scanned: directory 1 is the start directory and has up
\* to two entries, a and b; every other directory has up to one entry, a.
\* An entry is a file or any of the directories, so that a directory can
\* be reached under several paths, and from below itself.
ScanFileSystems ==
  {[kind    |-> k,
    entries |-> [d \in ScanDirs |-> IF d = 1 THEN top ELSE below[d]]] :
     k \in [ScanDirs -> DirKinds],
     top \in [{NameA, NameB} -> ScanEntryKinds],
     below \in [ScanDirs \ {1} -> [{NameA} -> ScanEntryKinds]]}

\* The path of the start directory.
ScanRoot == <<"/", "s">>

\* The orders in which reading a directory can return its entries.
ScanOrders == {<<NameA, NameB>>, <<NameB, NameA>>}

ScanInit ==
  /\ pc = "mounted"
  /\ fs \in ScanFileSystems
  /\ req = <<>>
  /\ out = <<>>
  /\ ty = <<>> /\ target = <<>> /\ hostname = <<>>
  /\ parsed = None /\ url = None /\ layout = None /\ dest = None /\ item = None

\* One call filter_git_paths_recursively(start_dir) (rer.rs:425).  A call
\* that returns leaves its result in out; a call whose recursion has no
\* end never returns.
Scan(order) ==
  /\ pc = "mounted"
  /\ req' = order
  /\ LET r == FilterGitPathsRecursively(fs, order, DirEntry(1), ScanRoot)
     IN  IF r.kind = "diverges"
         THEN pc' = "recursing" /\ out' = out
         ELSE pc' = "returned" /\ out' = r
  /\ UNCHANGED <<ty, target, hostname, parsed, url, layout, dest, item, fs>>

ScanNext == \E order \in ScanOrders : Scan(order)

ScanSpec == ScanInit /\ [][ScanNext]_vars

\* The directory reached from d along the names, if every name on the way
\* is an entry that is a directory.
RECURSIVE Walk(_, _, _)
Walk(f, d, names) ==
  IF names = <<>> THEN Some(d)
  ELSE LET e == IF Head(names) \in DOMAIN f.entries[d]
                THEN f.entries[d][Head(names)] ELSE NoEntry
       IN  IF e.kind = "dir" THEN Walk(f, e.node, Tail(names)) ELSE None

\* The sequences of at most n names.
NamePaths(names, n) == UNION {[1..k -> names] : k \in 0..n}

\* The path root/name/.../name.
RECURSIVE PathBelow(_, _)
PathBelow(root, names) ==
  IF names = <<>> THEN root
  ELSE PathBelow(PathBufJoin(root, Head(names)), Tail(names))

\* The directories at or below d (each under some path of at most n
\* names) that directly contain the marker and have no directory above
\* them, at or below d, that contains it.
RepoRootPaths(f, d, names, n) ==
  {p \in NamePaths(names, n) :
     /\ Walk(f, d, p) # None
     /\ f.kind[Walk(f, d, p)[1]] = "repo"
     /\ \A k \in 0..(Len(p) - 1) : f.kind[Walk(f, d, Take(p, k))[1]] # "repo"}

\* The directory has no entries at all.
EmptyDir(f, d) ==
  f.kind[d] = "plain" /\ \A n \in DOMAIN f.entries[d] : f.entries[d][n].kind = "none"

\* C11: a scan that returns entries returns exactly the directories at or
\* below the start directory that directly contain .git and lie below no
\* other such directory, each once: a directory inside a yielded
\* repository is not reported (A/.git and A/sub/.git give only A), a file
\* is never yielded, and the scan of an empty directory returns the empty
\* sequence and no error.
C11_ScanYieldsRepositoryRoots ==
  pc \in {"returned", "recursing"} =>
    /\ (pc = "returned" /\ out.kind = "ok") =>
         LET roots == RepoRootPaths(fs, 1, {NameA, NameB}, Cardinality(ScanDirs))
         IN  /\ Range(out.entries) = {PathBelow(ScanRoot, p) : p \in roots}
             /\ Len(out.entries) = Cardinality(roots)
    /\ EmptyDir(fs, 1) => pc = "returned" /\ out = ScanOk(<<>>)

\* C11 witness: the start directory holds A, A holds .git and sub, sub
\* holds .git; the scan has returned A alone.
C11_Witness ==
  /\ pc = "returned"
  /\ fs.kind = <<"plain", "repo", "repo">>
  /\ fs.entries[1][NameA] = DirEntry(2) /\ fs.entries[1][NameB] = FileEntry
  /\ fs.entries[2][NameA] = DirEntry(3)
  /\ out = ScanOk(<<ScanRoot \o TXT_slash \o NameA>>)

\* The directories that cannot be read and that a scan from d has to read:
\* every directory above them, from d on, is a plain readable one.
FailingPaths(f, d, names, n) ==
  {p \in NamePaths(names, n) :
     /\ Walk(f, d, p) # None
     /\ f.kind[Walk(f, d, p)[1]] = "unreadable"
     /\ \A k \in 0..(Len(p) - 1) : f.kind[Walk(f, d, Take(p, k))[1]] = "plain"}

\* The place of a name in the order of reading.
Pos(name, order) == CHOOSE i \in DOMAIN order : order[i] = name

\* A depth-first walk that reads entries in the given order comes to p
\* before q (neither lies above the other).
WalkedBefore(p, q, order) ==
  \E i \in 1..Len(p) :
    /\ i <= Len(q)
    /\ SubSeq(p, 1, i - 1) = SubSeq(q, 1, i - 1)
    /\ Pos(p[i], order) < Pos(q[i], order)

\* C12: when a directory the scan has to read cannot be read, the scan
\* returns the I/O error carrying the path of that directory (the first
\* such directory the walk comes to) and nothing else: no entries, also
\* not those of subtrees walked before the failure.
C12_ScanAllOrNothing ==
  pc = "returned" =>
    LET failing == FailingPaths(fs, 1, {NameA, NameB}, Cardinality(ScanDirs))
    IN  /\ failing # {} => out.kind = "err"
        /\ out.kind = "err" =>
             /\ DOMAIN out = {"kind", "path"}
             /\ \E p \in failing :
                  /\ out.path = PathBelow(ScanRoot, p)
                  /\ \A q \in failing \ {p} : WalkedBefore(p, q, req)

\* C12 witness: the walk has found the repository a, then failed to read
\* the directory b, and has returned the error for b alone.
C12_Witness ==
  /\ pc = "returned" /\ req = <<NameA, NameB>>
  /\ fs.kind = <<"plain", "repo", "unreadable">>
  /\ fs.entries[1][NameA] = DirEntry(2) /\ fs.entries[1][NameB] = DirEntry(3)
  /\ out = ScanErr(ScanRoot \o TXT_slash \o NameB)

\* C13: the scan of every start directory returns (links are followed as
\* directories and no cycle is detected), and a second scan of the same
\* start directory over the same filesystem, in whatever order the
\* directories are read, returns the same set of entries.
C13_ScanTerminates ==
  pc \in {"returned", "recursing"} =>
    /\ pc = "returned"
    /\ \A order \in ScanOrders :
         LET again == FilterGitPathsRecursively(fs, order, DirEntry(1), ScanRoot)
         IN  (out.kind = "ok" /\ again.kind = "ok") =>
               Range(again.entries) = Range(out.entries)

----------------------------------------------------------------------------
(* The List command with its filters (rer.rs:395-450)                      *)

\* str::contains
Contains(s, sub) ==
  \E i \in 1..(Len(s) + 1) :
    i + Len(sub) - 1 <= Len(s) /\ SubSeq(s, i, i + Len(sub) - 1) = sub

\* if let Some(x) = filter { if !text.contains(x) { continue; } }
Passes(filter, text) == filter = None \/ Contains(text, filter[1])

RepoTableItem(path, kind, host) == [path |-> path, ty |-> kind, hostname |-> host]

ListOk(acc) == [kind |-> "ok", list |-> acc.list, scanned |-> acc.scanned]

ListErr(path) == [kind |-> "err", path |-> path]

\* ListHosts with the hostname filter tested on the type.
RECURSIVE ListHosts_FilterOnType(_, _, _, _, _, _, _, _)
ListHosts_FilterOnType(f, order, names, type_dir, type_dir_path, kind, filter, acc) ==
  IF names = <<>> THEN ListOk(acc)
  ELSE LET name == Head(names)
           e    == f.entries[type_dir][name]
           host_dir_path == PathBufJoin(type_dir_path, name)
           host == StripPrefix(host_dir_path, type_dir_path)[1]
       IN  IF e.kind = "none" \/ ~Passes(filter.filter_hostname, kind)
           THEN ListHosts_FilterOnType(f, order, Tail(names), type_dir, type_dir_path,
                                       kind, filter, acc)
           ELSE LET r == FilterGitPathsRecursively(f, order, e, host_dir_path)
                    items == [i \in DOMAIN r.entries |->
                                RepoTableItem(StripPrefix(r.entries[i], host_dir_path)[1],
                                              kind, host)]
                    shown == SelectSeq(items,
                                LAMBDA it : Passes(filter.filter_path, it.path))
                IN  IF r.kind # "ok" THEN r
                    ELSE ListHosts_FilterOnType(f, order, Tail(names), type_dir,
                                   type_dir_path, kind, filter,
                                   [list    |-> acc.list \o shown,
                                    scanned |-> Append(acc.scanned, host_dir_path)])

\* The loop over the entries of a type directory (rer.rs:414-442), names
\* still to come.  acc.list is the list built so far; acc.scanned records
\* the host directories handed to the scan.
RECURSIVE ListHosts(_, _, _, _, _, _, _, _)
ListHosts(f, order, names, type_dir, type_dir_path, kind, filter, acc) ==
  IF names = <<>> THEN ListOk(acc)
  ELSE LET name == Head(names)
           e    == f.entries[type_dir][name]
           host_dir_path == PathBufJoin(type_dir_path, name)
           host == StripPrefix(host_dir_path, type_dir_path)[1]
       IN  IF e.kind = "none" \/ ~Passes(filter.filter_hostname, host)
           THEN ListHosts(f, order, Tail(names), type_dir, type_dir_path, kind, filter, acc)
           ELSE LET r == FilterGitPathsRecursively(f, order, e, host_dir_path)
                    items == [i \in DOMAIN r.entries |->
                                RepoTableItem(StripPrefix(r.entries[i], host_dir_path)[1],
                                              kind, host)]
                    shown == SelectSeq(items,
                                LAMBDA it : Passes(filter.filter_path, it.path))
                IN  IF r.kind # "ok" THEN r
                    ELSE ListHosts(f, order, Tail(names), type_dir, type_dir_path, kind,
                                   filter,
                                   [list    |-> acc.list \o shown,
                                    scanned |-> Append(acc.scanned, host_dir_path)])

\* The loop over the entries of the repository directory (rer.rs:403-443).
RECURSIVE ListTypes(_, _, _, _, _, _)
ListTypes(f, order, names, root, filter, acc) ==
  IF names = <<>> THEN ListOk(acc)
  ELSE LET name == Head(names)
           e    == f.entries[root][name]
           type_dir_path == PathBufJoin(RepoDir, name)
           kind == StripPrefix(type_dir_path, RepoDir)[1]
       IN  IF e.kind = "none" \/ ~Passes(filter.filter_type, kind)
           THEN ListTypes(f, order, Tail(names), root, filter, acc)
           ELSE IF e.kind = "file" \/ f.kind[e.node] = "unreadable"
           THEN ListErr(type_dir_path)
           ELSE LET r == ListHosts(f, order, order, e.node, type_dir_path, kind,
                                   filter, acc)
                IN  IF r.kind # "ok" THEN r
                    ELSE ListTypes(f, order, Tail(names), root, filter,
                                   [list |-> r.list, scanned |-> r.scanned])

\* Commands::List over the filesystem f, whose directory root is the
\* repository directory.
ListRun(f, order, root, filter) ==
  IF f.kind[root] = "unreadable" THEN ListErr(RepoDir)
  ELSE ListTypes(f, order, order, root, filter, [list |-> <<>>, scanned |-> <<>>])

TXT_hg == <<"h", "g">>

TypeNames == {STR_git, TXT_hg}

HostNames == {TXT_host, TXT_github}

ListNames == TypeNames \cup HostNames \cup {TXT_foo, TXT_bar}

\* The host directories a repository directory can hold: <type>/<host>.
HostDirs == {<<STR_git, TXT_host>>, <<STR_git, TXT_github>>, <<TXT_hg, TXT_host>>}

\* What is found at <type>/<host>: nothing; a file; an empty directory; a
\* repository foo (with a further .git in foo/bar); a repository foo/bar
\* below a plain directory foo; a directory foo that cannot be read.
HostContents == {"absent", "file", "empty", "foo", "foo/bar", "locked"}

\* The directories of a repository directory, each named by the names
\* that lead to it from the repository directory <<>>.
ListNodes ==
  {<<>>} \cup {<<t>> : t \in TypeNames} \cup HostDirs
    \cup {h \o <<TXT_foo>> : h \in HostDirs}
    \cup {h \o <<TXT_foo, TXT_bar>> : h \in HostDirs}

\* The filesystem with the given contents of the host directories; tkind
\* tells which type directories can be read.
ListFileSystem(content, tkind) ==
  [kind |->
     [n \in ListNodes |->
        CASE Len(n) = 1 -> tkind[n[1]]
          [] Len(n) = 3 ->
               LET c == content[Take(n, 2)]
               IN  IF c = "foo" THEN "repo"
                   ELSE IF c = "locked" THEN "unreadable" ELSE "plain"
          [] Len(n) = 4 -> "repo"
          [] OTHER -> "plain"],
   entries |->
     [n \in ListNodes |->
        [name \in ListNames |->
           CASE Len(n) = 0 ->
                  IF name \in TypeNames THEN DirEntry(<<name>>) ELSE NoEntry
             [] Len(n) = 1 ->
                  IF n \o <<name>> \notin HostDirs \/ content[n \o <<name>>] = "absent"
                  THEN NoEntry
                  ELSE IF content[n \o <<name>>] = "file" THEN FileEntry
                  ELSE DirEntry(n \o <<name>>)
             [] Len(n) = 2 ->
                  IF name = TXT_foo /\ content[n] \in {"foo", "foo/bar", "locked"}
                  THEN DirEntry(n \o <<name>>) ELSE NoEntry
             [] Len(n) = 3 ->
                  IF name = TXT_bar /\ content[Take(n, 2)] \in {"foo", "foo/bar"}
                  THEN DirEntry(n \o <<name>>) ELSE NoEntry
             [] OTHER -> NoEntry]]]

ListFileSystems ==
  {ListFileSystem(content, tkind) :
     content \in [HostDirs -> HostContents],
     tkind \in [TypeNames -> {"plain", "unreadable"}]}

\* The order in which a directory read returns the names.
ListOrder == <<TXT_hg, STR_git, TXT_github, TXT_host, TXT_foo, TXT_bar>>

\* The filter arguments of the List command (cli.rs:45-50).
TypeFilters == {None, Some(STR_git), Some(<<"g">>), Some(<<"G", "I", "T">>)}

HostnameFilters == {None, Some(<<"h", "u", "b">>), Some(<<"h">>)}

PathFilters == {None, Some(TXT_foo), Some(<<"o", "/", "b">>)}

ListInit ==
  /\ pc = "ready"
  /\ fs \in ListFileSystems
  /\ req = <<>>
  /\ out = <<>>
  /\ ty = <<>> /\ target = <<>> /\ hostname = <<>>
  /\ parsed = None /\ url = None /\ layout = None /\ dest = None /\ item = None

\* Commands::List (rer.rs:395-450) with the filters given: the list is
\* printed when the loops end, and an error ends the command.
ListFiltered(filter_type, filter_hostname, filter_path) ==
  /\ pc = "ready"
  /\ req' = [filter_type |-> filter_type, filter_hostname |-> filter_hostname,
             filter_path |-> filter_path]
  /\ out' = ListRun(fs, ListOrder, <<>>, req')
  /\ pc' = IF out'.kind = "ok" THEN "printed" ELSE "list_failed"
  /\ UNCHANGED <<ty, target, hostname, parsed, url, layout, dest, item, fs>>

ListNext ==
  \E filter_type \in TypeFilters, filter_hostname \in HostnameFilters,
     filter_path \in PathFilters :
    ListFiltered(filter_type, filter_hostname, filter_path)

ListSpec == ListInit /\ [][ListNext]_vars

\* sub occurs in s, letter for letter.
IsSubstring(sub, s) ==
  \E before, after \in {SubSeq(s, i, j) : i \in 1..(Len(s) + 1), j \in 0..Len(s)} :
    s = before \o sub \o after

\* The filter is absent, or its text occurs in the field.
Admits(filter, field) == filter = None \/ IsSubstring(filter[1], field)

\* The host directories there are: <type>/<host> is an entry of a type
\* directory.
HostDirsPresent(f) ==
  {h \in HostDirs : f.entries[<<h[1]>>][h[2]].kind # "none"}

\* The repositories there are, decomposed: kind, host, and the path below
\* the host directory.
Repositories(f) ==
  UNION {{RepoTableItem(PathBelow(<<>>, p), h[1], h[2]) :
            p \in RepoRootPaths(f, h, {TXT_foo, TXT_bar}, 2)} :
         h \in {d \in HostDirs : Walk(f, <<>>, d) # None}}

\* C14: the List command prints a repository if and only if each filter
\* that is given occurs, letter for letter, in the field it is for:
\* filter_type in the kind, filter_hostname in the host, filter_path in
\* the path below the host directory; a filter that is not given excludes
\* nothing.  The host directories scanned are those whose kind and host
\* pass their filters, and no others.
C14_ListFilters ==
  pc = "printed" =>
    /\ Range(out.list) =
         {r \in Repositories(fs) :
            /\ Admits(req.filter_type, r.ty)
            /\ Admits(req.filter_hostname, r.hostname)
            /\ Admits(req.filter_path, r.path)}
    /\ Range(out.scanned) =
         {PathBelow(RepoDir, h) :
            h \in {d \in HostDirsPresent(fs) :
                     /\ Admits(req.filter_type, d[1])
                     /\ Admits(req.filter_hostname, d[2])}}

\* C14 witness: with all three filters given, git/github.com/foo/bar is
\* printed, and git/host, which holds a directory that cannot be read and
\* does not pass the hostname filter, has not been scanned.
C14_Witness ==
  /\ pc = "printed"
  /\ req = [filter_type |-> Some(STR_git), filter_hostname |-> Some(<<"h", "u", "b">>),
            filter_path |-> Some(<<"o", "/", "b">>)]
  /\ fs.kind[<<STR_git, TXT_host, TXT_foo>>] = "unreadable"
  /\ fs.entries[<<STR_git>>][TXT_host] = DirEntry(<<STR_git, TXT_host>>)
  /\ out.list = <<RepoTableItem(TXT_foo \o TXT_slash \o TXT_bar, STR_git, TXT_github)>>
  /\ out.scanned = <<PathBelow(RepoDir, <<STR_git, TXT_github>>)>>

====
